---- MODULE Spec2Model ----
(***************************************************************************)
(* SparklyReader (src/sparkly/reader.py): the URL-driven readers (by_url   *)
(* and the resolvers behind it) and the kafka reader.                      *)
(*                                                                         *)
(* A Python string that the code takes apart or builds (a query value, a   *)
(* path, a host, a formatted option) is a sequence of tokens; a name that  *)
(* is only looked up (a dict key, a scheme, a topic, a column) is an       *)
(* atomic string.  A Python value whose type the code tests is a tagged    *)
(* tuple: <<"None">>, <<"str", tokens>>, <<"int", n>>, <<"list", seq>>,    *)
(* <<"dict", d>>, <<"bool", b>>.                                           *)
(* A dict is a function from its keys to tagged values.                    *)
(*                                                                         *)
(* Each public method is one action.  It leaves in `trace` the calls it    *)
(* made on the engine, in order, and in `result` what it returned or       *)
(* raised.                                                                 *)
(***************************************************************************)
EXTENDS Integers, Sequences, FiniteSets, TLC

VARIABLES pc, call, trace, result

vars == <<pc, call, trace, result>>

----------------------------------------------------------------------------
(* Bounds of the model. *)

MaxQuery == 2
MaxRanges == 2

----------------------------------------------------------------------------
(* Python values. *)

None == <<"None">>
StrV(s) == <<"str", s>>
IntV(n) == <<"int", n>>
ListV(s) == <<"list", s>>
DictV(d) == <<"dict", d>>
BoolV(b) == <<"bool", b>>

EmptyDict == [k \in {} |-> None]

\* `if x:` / `x or y` / `not x`
Truthy(v) ==
    CASE v[1] = "None" -> FALSE
      [] v[1] = "bool" -> v[2]
      [] v[1] = "int" -> v[2] # 0
      [] v[1] = "str" -> v[2] # <<>>
      [] v[1] = "list" -> v[2] # <<>>
      [] v[1] = "dict" -> DOMAIN v[2] # {}
      [] OTHER -> TRUE

\* d.update(o): the keys of o win
Update(d, o) ==
    [k \in DOMAIN d \cup DOMAIN o |-> IF k \in DOMAIN o THEN o[k] ELSE d[k]]

\* d after d.pop(k, None)
Without(d, k) == [j \in DOMAIN d \ {k} |-> d[j]]

\* the value of d.pop(k, None)
Pop(d, k) == IF k \in DOMAIN d THEN d[k] ELSE None

\* d after d[k] = v
Put(d, k, v) == [j \in DOMAIN d \cup {k} |-> IF j = k THEN v ELSE d[j]]

Digits == {"0", "1", "2", "3", "4", "5", "6", "7", "8", "9"}

DigitVal(c) ==
    CASE c = "0" -> 0 [] c = "1" -> 1 [] c = "2" -> 2 [] c = "3" -> 3
      [] c = "4" -> 4 [] c = "5" -> 5 [] c = "6" -> 6 [] c = "7" -> 7
      [] c = "8" -> 8 [] c = "9" -> 9

DigitChar(n) ==
    CASE n = 0 -> "0" [] n = 1 -> "1" [] n = 2 -> "2" [] n = 3 -> "3"
      [] n = 4 -> "4" [] n = 5 -> "5" [] n = 6 -> "6" [] n = 7 -> "7"
      [] n = 8 -> "8" [] n = 9 -> "9"

SignOf(s) == IF s # <<>> /\ Head(s) \in {"-", "+"} THEN Head(s) ELSE ""

Unsigned(s) == IF SignOf(s) = "" THEN s ELSE Tail(s)

\* int(s) succeeds: an optional sign, then one digit or more
IsNumeric(s) ==
    /\ Unsigned(s) # <<>>
    /\ \A i \in 1..Len(Unsigned(s)) : Unsigned(s)[i] \in Digits

RECURSIVE DigitsValue(_)
DigitsValue(s) ==
    IF s = <<>> THEN 0
    ELSE 10 * DigitsValue(SubSeq(s, 1, Len(s) - 1)) + DigitVal(s[Len(s)])

\* int(s), for a string s with IsNumeric(s)
PyInt(s) ==
    IF SignOf(s) = "-" THEN 0 - DigitsValue(Unsigned(s)) ELSE DigitsValue(Unsigned(s))

RECURSIVE NatToStr(_)
NatToStr(n) ==
    IF n < 10 THEN <<DigitChar(n)>>
    ELSE NatToStr(n \div 10) \o <<DigitChar(n % 10)>>

\* str(n) / '{}'.format(n) / a JSON object key made of an int
IntToStr(n) == IF n < 0 THEN <<"-">> \o NatToStr(0 - n) ELSE NatToStr(n)

\* s.split(sep), 1-indexed
RECURSIVE Split(_, _)
Split(s, sep) ==
    IF \A i \in 1..Len(s) : s[i] # sep THEN <<s>>
    ELSE LET i == CHOOSE j \in 1..Len(s) :
                      s[j] = sep /\ \A k \in 1..(j - 1) : s[k] # sep
         IN <<SubSeq(s, 1, i - 1)>> \o Split(SubSeq(s, i + 1, Len(s)), sep)

\* sep.join(parts), the parts being token sequences
RECURSIVE Join(_, _)
Join(parts, sep) ==
    IF parts = <<>> THEN <<>>
    ELSE IF Len(parts) = 1 THEN parts[1]
    ELSE parts[1] \o <<sep>> \o Join(Tail(parts), sep)

----------------------------------------------------------------------------
(* What a call leaves behind: the engine calls it made and its outcome. *)

Event(op, api, arg) == [op |-> op, api |-> api, arg |-> arg]

Error(type, text, args) == [type |-> type, text |-> text, args |-> args]

Raise(tr, err) == [trace |-> tr, result |-> <<"error", err>>]

Return(tr, df) == [trace |-> tr, result |-> <<"ok", df>>]

EngineError == Error("EngineError", "engine", <<>>)

\* the engine's lazily evaluated table: where it came from, its columns and
\* the coalesce calls applied to it
DataFrame(api, cols) == [source |-> api, cols |-> cols, coalesced |-> <<>>]

Column(name, expr) == [name |-> name, expr |-> expr]

\* df.coalesce(n)
Coalesce(df, n) == [df EXCEPT !.coalesced = Append(@, n)]

\* `if parallelism: df = df.coalesce(parallelism)` followed by `return df`
CoalesceAndReturn(tr, df, parallelism, fault) ==
    IF Truthy(parallelism)
    THEN LET tr2 == Append(tr, Event("coalesce", "df.coalesce", parallelism))
         IN IF fault = "coalesce" THEN Raise(tr2, EngineError)
            ELSE Return(tr2, Coalesce(df, parallelism[2]))
    ELSE Return(tr, df)

----------------------------------------------------------------------------
(* by_url and the readers behind it. *)

\* urlparse(url): the URL is given by its parts; netloc and hostname are
\* rebuilt from them as urlparse reports them
urlparse(url) ==
    [scheme |-> url.scheme,
     netloc |-> url.host \o (IF url.port = None THEN <<>>
                             ELSE <<":">> \o IntToStr(url.port[2])),
     hostname |-> IF url.host = <<>> THEN None ELSE StrV(url.host),
     port |-> url.port,
     path |-> url.path,
     query |-> url.query]

\* parse_qsl(query): the pairs in order; a pair with a blank value is dropped
\* (keep_blank_values is left at its default)
parse_qsl(query) == SelectSeq(query, LAMBDA kv : kv[2] # <<>>)

\* dict(pairs): the last pair of a key wins
dict(pairs) ==
    [k \in {pairs[i][1] : i \in 1..Len(pairs)} |->
        LET last == CHOOSE i \in 1..Len(pairs) :
                        pairs[i][1] = k /\ \A j \in (i + 1)..Len(pairs) : pairs[j][1] # k
        IN StrV(pairs[last][2])]

\* sparkly.utils.parse_schema: the structured type of a schema string
parse_schema(v) == <<"StructType", v[2]>>

\* self._spark.read.load(**reader_options), then the optional coalesce
_basic_read(reader_options, additional_options, parallelism, fault) ==
    LET merged == Update(reader_options,
                         IF Truthy(additional_options) THEN additional_options[2]
                         ELSE EmptyDict)
        tr == <<Event("load", "read.load", merged)>>
    IN IF fault = "load" THEN Raise(tr, EngineError)
       ELSE CoalesceAndReturn(tr, DataFrame("read.load", <<>>), parallelism, fault)

cassandra(host, keyspace, table, consistency, port, parallelism, options, fault) ==
    LET o1 == ("format" :> StrV(<<"org.apache.spark.sql.cassandra">>))
              @@ ("spark.cassandra.connection.host" :> host)
              @@ ("keyspace" :> keyspace)
              @@ ("table" :> table)
        o2 == IF Truthy(consistency)
              THEN Put(o1, "spark.cassandra.input.consistency.level", consistency)
              ELSE o1
        o3 == IF Truthy(port)
              THEN Put(o2, "spark.cassandra.connection.port", StrV(IntToStr(port[2])))
              ELSE o2
    IN _basic_read(o3, options, parallelism, fault)

elastic(host, es_index, es_type, query, fields, port, parallelism, options, fault) ==
    LET o1 == ("path" :> IF Truthy(es_type)
                         THEN StrV(es_index[2] \o <<"/">> \o es_type[2])
                         ELSE es_index)
              @@ ("format" :> StrV(<<"org.elasticsearch.spark.sql">>))
              @@ ("es.nodes" :> host)
              @@ ("es.query" :> query)
              @@ ("es.read.metadata" :> StrV(<<"true">>))
        o2 == IF Truthy(fields)
              THEN Put(o1, "es.read.field.include", StrV(Join(fields[2], ",")))
              ELSE o1
        o3 == IF Truthy(port) THEN Put(o2, "es.port", StrV(IntToStr(port[2]))) ELSE o2
    IN _basic_read(o3, options, parallelism, fault)

\* '{}'.format(v) of a str or of None
Format(v) == IF v = None THEN <<"None">> ELSE v[2]

mysql(host, database, table, port, parallelism, options, fault) ==
    LET o1 == ("format" :> StrV(<<"jdbc">>))
              @@ ("driver" :> StrV(<<"com.mysql.jdbc.Driver">>))
              @@ ("url" :> StrV(<<"jdbc:mysql://">> \o Format(host)
                                \o (IF Truthy(port) THEN <<":">> \o IntToStr(port[2])
                                    ELSE <<>>)
                                \o <<"/">> \o Format(database)))
              @@ ("dbtable" :> table)
    IN _basic_read(o1, options, parallelism, fault)

IndexError == Error("IndexError", "list index out of range", <<>>)

\* f(path=..., **parsed_qs) with a key of parsed_qs among the named arguments
DuplicateKeyword == Error("TypeError", "got multiple values for keyword argument", <<>>)

_resolve_cassandra(parsed_url, parsed_qs, fault) ==
    LET segs == Split(parsed_url.path, "/")
        qs1 == Without(parsed_qs, "consistency")
        qs2 == Without(qs1, "parallelism")
    IN IF Len(segs) < 3 THEN Raise(<<>>, IndexError)
       ELSE cassandra(parsed_url.hostname, StrV(segs[2]), StrV(segs[3]),
                      Pop(parsed_qs, "consistency"), parsed_url.port,
                      Pop(qs1, "parallelism"), DictV(qs2), fault)

_resolve_csv(parsed_url, parsed_qs, fault) ==
    LET parallelism == Pop(parsed_qs, "parallelism")
        qs1 == Without(parsed_qs, "parallelism")
        qs2 == IF "schema" \in DOMAIN qs1
               THEN Put(Without(qs1, "schema"), "schema", parse_schema(qs1["schema"]))
               ELSE qs1
        tr == <<Event("load", "read.csv", Put(qs2, "path", StrV(parsed_url.path)))>>
    IN IF "path" \in DOMAIN qs2 THEN Raise(<<>>, DuplicateKeyword)
       ELSE IF fault = "load" THEN Raise(tr, EngineError)
       ELSE CoalesceAndReturn(tr, DataFrame("read.csv", <<>>), parallelism, fault)

_resolve_elastic(parsed_url, parsed_qs, fault) ==
    LET query == IF "q" \in DOMAIN parsed_qs
                 THEN StrV(<<"?q=">> \o parsed_qs["q"][2])
                 ELSE StrV(<<>>)
        qs1 == Without(parsed_qs, "q")
        fields == IF "fields" \in DOMAIN qs1
                  THEN ListV(Split(qs1["fields"][2], ","))
                  ELSE None
        qs2 == Without(qs1, "fields")
        path_segments == Split(parsed_url.path, "/")
        qs3 == Without(qs2, "parallelism")
    IN IF Len(path_segments) < 2 THEN Raise(<<>>, IndexError)
       ELSE elastic(StrV(parsed_url.netloc), StrV(path_segments[2]),
                    IF Len(path_segments) > 2 THEN StrV(path_segments[3]) ELSE None,
                    query, fields, parsed_url.port,
                    Pop(qs2, "parallelism"), DictV(qs3), fault)

_resolve_mysql(parsed_url, parsed_qs, fault) ==
    LET segs == Split(parsed_url.path, "/")
        qs1 == Without(parsed_qs, "parallelism")
    IN IF Len(segs) < 3 THEN Raise(<<>>, IndexError)
       ELSE mysql(parsed_url.hostname, StrV(segs[2]), StrV(segs[3]), parsed_url.port,
                  Pop(parsed_qs, "parallelism"), DictV(qs1), fault)

_resolve_parquet(parsed_url, parsed_qs, fault) ==
    LET parallelism == Pop(parsed_qs, "parallelism")
        qs1 == Without(parsed_qs, "parallelism")
        config == Put(Put(qs1, "path", StrV(parsed_url.path)),
                      "format", StrV(<<parsed_url.scheme>>))
        tr == <<Event("load", "read.load", config)>>
    IN IF DOMAIN qs1 \cap {"path", "format"} # {} THEN Raise(<<>>, DuplicateKeyword)
       ELSE IF fault = "load" THEN Raise(tr, EngineError)
       ELSE CoalesceAndReturn(tr, DataFrame("read.load", <<>>), parallelism, fault)

_resolve_table(parsed_url, parsed_qs, fault) ==
    LET tr == <<Event("load", "table", StrV(parsed_url.netloc))>>
    IN IF fault = "load" THEN Raise(tr, EngineError)
       ELSE CoalesceAndReturn(tr, DataFrame("table", <<>>),
                              Pop(parsed_qs, "parallelism"), fault)

\* the schemes s for which the class has a method _resolve_<s>
ResolverSchemes == {"cassandra", "csv", "elastic", "mysql", "parquet", "table"}

\* getattr(self, '_resolve_{}'.format(scheme)) finds a method
HasResolver(scheme) == scheme \in ResolverSchemes

resolver(parsed_url, parsed_qs, fault) ==
    CASE parsed_url.scheme = "cassandra" -> _resolve_cassandra(parsed_url, parsed_qs, fault)
      [] parsed_url.scheme = "csv" -> _resolve_csv(parsed_url, parsed_qs, fault)
      [] parsed_url.scheme = "elastic" -> _resolve_elastic(parsed_url, parsed_qs, fault)
      [] parsed_url.scheme = "mysql" -> _resolve_mysql(parsed_url, parsed_qs, fault)
      [] parsed_url.scheme = "parquet" -> _resolve_parquet(parsed_url, parsed_qs, fault)
      [] parsed_url.scheme = "table" -> _resolve_table(parsed_url, parsed_qs, fault)

\* int(parsed_qs['parallelism']) raises
ParallelismNotNumeric(qs) ==
    "parallelism" \in DOMAIN qs /\ ~IsNumeric(qs["parallelism"][2])

\* parsed_qs after `parsed_qs['parallelism'] = int(parsed_qs['parallelism'])`
Coerced(qs) ==
    IF "parallelism" \in DOMAIN qs
    THEN [qs EXCEPT !["parallelism"] = IntV(PyInt(@[2]))]
    ELSE qs

by_url(url, fault) ==
    LET parsed_url == urlparse(url)
        parsed_qs == dict(parse_qsl(parsed_url.query))
    IN IF ParallelismNotNumeric(parsed_qs)
       THEN Raise(<<>>, Error("ValueError", "invalid literal for int() with base 10",
                              <<parsed_qs["parallelism"]>>))
       ELSE IF ~HasResolver(parsed_url.scheme)
       THEN Raise(<<>>, Error("NotImplementedError", "Data source is not supported: {}",
                              <<url>>))
       ELSE resolver(parsed_url, Coerced(parsed_qs), fault)

----------------------------------------------------------------------------
(* kafka. *)

DefaultKafkaPort == 9092

Range(s) == {s[i] : i \in 1..Len(s)}

\* get_offsets that reads the start offset whatever `which` is
get_offsets_AlwaysStart(offsets, which) ==
    [p \in {offsets[i][1] : i \in 1..Len(offsets)} |->
        LET last == CHOOSE i \in 1..Len(offsets) :
                        offsets[i][1] = p /\ \A j \in (i + 1)..Len(offsets) : offsets[j][1] # p
        IN offsets[last][2]]

\* get_offsets(offsets, which): {offset[0]: offset[which] for offset in offsets};
\* the last range of a partition wins
get_offsets(offsets, which) ==
    [p \in {offsets[i][1] : i \in 1..Len(offsets)} |->
        LET last == CHOOSE i \in 1..Len(offsets) :
                        offsets[i][1] = p /\ \A j \in (i + 1)..Len(offsets) : offsets[j][1] # p
        IN offsets[last][which + 1]]

\* json.dumps of {topic: {partition: offset}}: the text of a JSON object, whose
\* keys are strings (an int key is written as its decimal string)
json_dumps(d) ==
    <<"json", [t \in DOMAIN d |->
                 [s \in {IntToStr(p) : p \in DOMAIN d[t]} |->
                     d[t][CHOOSE p \in DOMAIN d[t] : IntToStr(p) = s]]]>>

\* json.dumps({t: get_offsets(offset_ranges, which) for t in topic})
OffsetsOption(topic, offset_ranges, which) ==
    json_dumps([t \in Range(topic) |-> get_offsets(offset_ranges, which)])

\* get_schema that takes the first field of the schema, whatever its name
get_schema_AnyField(schema, field) ==
    IF schema = None
    THEN <<"error", Error("InvalidArgumentError",
                          "Cannot use a deserializer without specifying schema", <<>>)>>
    ELSE LET candidates == schema[2]
         IN IF candidates = <<>>
            THEN <<"error", Error("InvalidArgumentError",
                                  "Cannot find field: {field} in schema: {schema}",
                                  <<field, schema>>)>>
            ELSE <<"ok", candidates[1].dataType>>

\* get_schema(field) of kafka: <<"ok", dataType>> or <<"error", the error raised>>
get_schema(schema, field) ==
    IF schema = None
    THEN <<"error", Error("InvalidArgumentError",
                          "Cannot use a deserializer without specifying schema", <<>>)>>
    ELSE LET candidates == SelectSeq(schema[2], LAMBDA x : x.name = field)
         IN IF candidates = <<>>
            THEN <<"error", Error("InvalidArgumentError",
                                  "Cannot find field: {field} in schema: {schema}",
                                  <<field, schema>>)>>
            ELSE <<"ok", candidates[1].dataType>>

\* df.withColumn(name, expr): replaces the column of that name, or adds it
WithColumn(df, name, expr) ==
    IF \E i \in 1..Len(df.cols) : df.cols[i].name = name
    THEN [df EXCEPT !.cols = [i \in 1..Len(df.cols) |->
                                 IF df.cols[i].name = name THEN Column(name, expr)
                                 ELSE df.cols[i]]]
    ELSE [df EXCEPT !.cols = Append(@, Column(name, expr))]

\* df.select(*names)
Select(df, names) ==
    [df EXCEPT !.cols = [i \in 1..Len(names) |->
                            df.cols[CHOOSE j \in 1..Len(df.cols) : df.cols[j].name = names[i]]]]

\* F.udf(deserializer, returnType=dataType)(F.col(name))
Udf(deserializer, dataType, name) == <<"udf", deserializer, dataType, name>>

\* the projection with `include_meta_cols is False` for `not include_meta_cols`
KafkaProject_OnlyFalse(a, tr, df, fault) ==
    IF a.include_meta_cols = BoolV(FALSE)
    THEN CoalesceAndReturn(Append(tr, Event("select", "df.select", <<"key", "value">>)),
                           Select(df, <<"key", "value">>), a.parallelism, fault)
    ELSE CoalesceAndReturn(tr, df, a.parallelism, fault)

\* kafka from `if not include_meta_cols:` to the end
KafkaProject(a, tr, df, fault) ==
    IF ~Truthy(a.include_meta_cols)
    THEN CoalesceAndReturn(Append(tr, Event("select", "df.select", <<"key", "value">>)),
                           Select(df, <<"key", "value">>), a.parallelism, fault)
    ELSE CoalesceAndReturn(tr, df, a.parallelism, fault)

\* kafka from `if value_deserializer is not None:` on
KafkaValue(a, tr, df, fault) ==
    IF a.value_deserializer # None
    THEN LET t == get_schema(a.schema, "value")
         IN IF t[1] = "error" THEN Raise(tr, t[2])
            ELSE KafkaProject(a, Append(tr, Event("withColumn", "df.withColumn", "value")),
                              WithColumn(df, "value", Udf(a.value_deserializer, t[2], "value")),
                              fault)
    ELSE KafkaProject(a, tr, df, fault)

\* kafka from `if key_deserializer is not None:` on
KafkaKey(a, tr, df, fault) ==
    IF a.key_deserializer # None
    THEN LET t == get_schema(a.schema, "key")
         IN IF t[1] = "error" THEN Raise(tr, t[2])
            ELSE KafkaValue(a, Append(tr, Event("withColumn", "df.withColumn", "key")),
                            WithColumn(df, "key", Udf(a.key_deserializer, t[2], "key")),
                            fault)
    ELSE KafkaValue(a, tr, df, fault)

\* reader.option(key, value): the call is made on the engine's reader, which
\* keeps the last value given for a key
Option(reader, key, value) ==
    [tr |-> Append(reader.tr, Event("option", key, value)),
     opts |-> Put(reader.opts, key, value)]

\* the reader after `if offset_ranges:` (reached with one topic at most)
KafkaOffsets(reader, topic, offset_ranges) ==
    IF Truthy(offset_ranges)
    THEN Option(Option(reader, "startingOffsets", OffsetsOption(topic, offset_ranges[2], 1)),
                "endingOffsets", OffsetsOption(topic, offset_ranges[2], 2))
    ELSE reader

\* the gate with `offset_ranges is not None` for `offset_ranges`
OffsetsForSeveralTopics_NotNone(topic, offset_ranges) ==
    offset_ranges # None /\ Len(topic) > 1

\* `if offset_ranges: if len(topic) > 1: raise`
OffsetsForSeveralTopics(topic, offset_ranges) ==
    Truthy(offset_ranges) /\ Len(topic) > 1

\* for key, value in (options or {}).items(): reader = reader.option(key, value)
RECURSIVE KafkaOptionsLoop(_, _)
KafkaOptionsLoop(reader, options) ==
    IF DOMAIN options = {} THEN reader
    ELSE LET key == CHOOSE k \in DOMAIN options : TRUE
         IN KafkaOptionsLoop(Option(reader, key, options[key]), Without(options, key))

\* kafka(host, topic, offset_ranges, ...): a is the arguments, engineCols the
\* metadata columns the engine's kafka source exposes beside key and value
kafka(a, engineCols, fault) ==
    LET topic == IF a.topic[1] = "str" THEN <<a.topic[2]>> ELSE a.topic[2]
        r0 == Option([tr |-> <<Event("format", "read.format", StrV(<<"kafka">>))>>,
                      opts |-> EmptyDict],
                     "kafka.bootstrap.servers",
                     StrV(a.host \o <<":">> \o IntToStr(a.port)))
        r1 == Option(r0, "subscribe", StrV(Join(topic, ",")))
        r2 == KafkaOffsets(r1, topic, a.offset_ranges)
        r3 == KafkaOptionsLoop(r2, IF Truthy(a.options) THEN a.options[2] ELSE EmptyDict)
        tr == Append(r3.tr, Event("load", "reader.load", r3.opts))
        df == DataFrame("kafka",
                        [i \in 1..(2 + Len(engineCols)) |->
                            Column(IF i = 1 THEN "key" ELSE IF i = 2 THEN "value"
                                   ELSE engineCols[i - 2], <<"raw">>)])
    IN IF a.topic = None
       THEN Raise(r0.tr, Error("TypeError", "can only join an iterable", <<>>))
       ELSE IF OffsetsForSeveralTopics(topic, a.offset_ranges)
       THEN Raise(r1.tr, Error("InvalidArgumentError",
                               "Specifying offset_ranges for multiple topics is not currently supported",
                               <<>>))
       ELSE IF fault = "load" THEN Raise(tr, EngineError)
       ELSE KafkaKey(a, tr, df, fault)

----------------------------------------------------------------------------
(* The inputs. *)

Faults == {"none", "load", "coalesce"}

KafkaFaults == {"none", "load"}

Schemes == ResolverSchemes \cup {"foo"}

Hosts == {<<"h">>}

Ports == {None, IntV(9042)}

Paths == {<<>>, <<"/", "a">>, <<"/", "a", "/", "b">>}

QueryPairs ==
    { <<"parallelism", <<"3">>>>, <<"parallelism", <<"0">>>>,
      <<"parallelism", <<"-", "1">>>>,
      <<"parallelism", <<"a", "b">>>>,
      <<"consistency", <<"ONE">>>>,
      <<"q", <<"views:>10">>>>,
      <<"fields", <<"f1", ",", "f2">>>>,
      <<"schema", <<"name:string">>>>,
      <<"format", <<"csv">>>>,
      <<"path", <<"elsewhere">>>>,
      <<"es.read.metadata", <<"false">>>>,
      <<"password", <<>>>> }

RECURSIVE SeqsUpTo(_, _)
SeqsUpTo(S, n) ==
    IF n = 0 THEN {<<>>}
    ELSE LET shorter == SeqsUpTo(S, n - 1)
         IN shorter \cup {Append(s, x) : s \in shorter, x \in S}

Queries == SeqsUpTo(QueryPairs, MaxQuery)

Urls == [scheme : Schemes, host : Hosts, port : Ports, path : Paths, query : Queries]

Topics == {None, StrV(<<"t1">>), ListV(<<>>), ListV(<<<<"t1">>>>),
           ListV(<<<<"t1">>, <<"t2">>>>)}

OffsetTriples == {<<0, 10, 20>>, <<1, 0, 5>>, <<0, 7, 9>>}

OffsetRanges == {None} \cup {ListV(r) : r \in SeqsUpTo(OffsetTriples, MaxRanges)}

Deserializers == {None, <<"callable", "loads">>}

Field(name, dataType) == [name |-> name, dataType |-> dataType]

Schemas ==
    {None,
     <<"schema", <<Field("key", "string")>>>>,
     <<"schema", <<Field("value", "map")>>>>,
     <<"schema", <<Field("offset", "long")>>>>,
     <<"schema", <<Field("key", "string"), Field("value", "map"), Field("key", "long")>>>>}

Parallelisms == {None, IntV(0), IntV(3)}

KafkaOptions == {None, DictV("startingOffsets" :> StrV(<<"earliest">>))}

MetaFlags == {None, BoolV(FALSE), BoolV(TRUE)}

EngineColumns == {<<>>, <<"topic", "partition", "offset", "timestamp", "timestampType">>}

KafkaArgs ==
    [host : Hosts, port : {DefaultKafkaPort}, topic : Topics, offset_ranges : OffsetRanges,
     key_deserializer : Deserializers, value_deserializer : Deserializers,
     schema : Schemas, parallelism : Parallelisms, options : KafkaOptions,
     include_meta_cols : MetaFlags]

----------------------------------------------------------------------------
(* The state machine: a caller calls a method and takes what it returns. *)

Init ==
    /\ pc = "idle"
    /\ call = <<"none">>
    /\ trace = <<>>
    /\ result = <<"none">>

ByUrl ==
    /\ pc = "idle"
    /\ \E url \in Urls, fault \in Faults :
         LET out == by_url(url, fault)
         IN /\ call' = <<"by_url", url, fault>>
            /\ trace' = out.trace
            /\ result' = out.result
    /\ pc' = "done"

Kafka ==
    /\ pc = "idle"
    /\ \E a \in KafkaArgs, engineCols \in EngineColumns, fault \in KafkaFaults :
         LET out == kafka(a, engineCols, fault)
         IN /\ call' = <<"kafka", a, engineCols, fault>>
            /\ trace' = out.trace
            /\ result' = out.result
    /\ pc' = "done"

\* the caller has the result (or the exception); the reader keeps no state
CallReturns ==
    /\ pc = "done"
    /\ pc' = "idle"
    /\ call' = <<"none">>
    /\ trace' = <<>>
    /\ result' = <<"none">>

Next == ByUrl \/ Kafka \/ CallReturns

Spec == Init /\ [][Next]_vars

----------------------------------------------------------------------------
(* What the properties below read from a finished call. *)

Done == pc = "done"
IsByUrl == Done /\ call[1] = "by_url"
IsKafka == Done /\ call[1] = "kafka"
Succeeded == Done /\ result[1] = "ok"
Failed == Done /\ result[1] = "error"
FailedWith(type) == Failed /\ result[2].type = type

EventsOf(op) == {i \in 1..Len(trace) : trace[i].op = op}
Loaded == EventsOf("load") # {}

\* the topic list kafka works with, for a topic argument that is not None
TopicList(t) == IF t[1] = "str" THEN <<t[2]>> ELSE t[2]

\* the keys of the URL's query string
QueryKeys(url) == {url.query[i][1] : i \in 1..Len(url.query)}

\* the message of the error raised at the offsets gate
OffsetsGateText ==
    "Specifying offset_ranges for multiple topics is not currently supported"

----------------------------------------------------------------------------
(* The properties. *)

\* C1: a call that ends in an error of this layer (any error that is not the
\* engine's own) has made no load call on the engine before the error.
C1_NoLoadBeforeOwnError ==
    (Failed /\ result[2].type # "EngineError") => ~Loaded

\* C2: kafka with several topics and a non-empty offset_ranges fails with
\* InvalidArgumentError and makes no load call; with an empty or absent
\* offset_ranges the same call does not fail at the offsets gate, and every
\* startingOffsets or endingOffsets option it sets is one the caller passed in
\* options (the gate sets neither).
C2_OffsetsGate ==
    (IsKafka /\ call[2].topic[1] = "list" /\ Len(call[2].topic[2]) > 1) =>
        IF call[2].offset_ranges # None /\ call[2].offset_ranges[2] # <<>>
        THEN /\ FailedWith("InvalidArgumentError")
             /\ result[2].text = OffsetsGateText
             /\ ~Loaded
        ELSE /\ ~(Failed /\ result[2].text = OffsetsGateText)
             /\ \A i \in EventsOf("option") :
                    trace[i].api \in {"startingOffsets", "endingOffsets"} =>
                        /\ call[2].options # None
                        /\ trace[i].api \in DOMAIN call[2].options[2]
                        /\ trace[i].arg = call[2].options[2][trace[i].api]

\* C2 witness: two topics with a range are refused after the reader was built
C2_Witness ==
    /\ IsKafka
    /\ call[2].topic = ListV(<<<<"t1">>, <<"t2">>>>)
    /\ call[2].offset_ranges = ListV(<<<<0, 10, 20>>>>)
    /\ FailedWith("InvalidArgumentError")
    /\ Len(trace) = 3

\* C3: by_url on a URL whose scheme has no resolver fails with the
\* unsupported-scheme error (NotImplementedError) carrying the URL, whatever
\* the query string, and makes no engine call.
C3_UnknownSchemeError ==
    (IsByUrl /\ call[2].scheme \notin ResolverSchemes) =>
        /\ FailedWith("NotImplementedError")
        /\ result[2].args = <<call[2]>>
        /\ trace = <<>>

\* kafka got past the load: the deserializers are looked at next
PastLoad == IsKafka /\ Loaded /\ call[4] # "load"

HasField(schema, field) ==
    schema # None /\ \E i \in 1..Len(schema[2]) : schema[2][i].name = field

FirstType(schema, field) ==
    schema[2][CHOOSE i \in 1..Len(schema[2]) :
                  /\ schema[2][i].name = field
                  /\ \A j \in 1..(i - 1) : schema[2][j].name # field].dataType

NamesField(field) == result[2].args # <<>> /\ result[2].args[1] = field

Wired(field) == \E i \in EventsOf("withColumn") : trace[i].arg = field

\* the deserializer kafka looks at first among those given whose field is missing
FirstMissing ==
    IF call[2].key_deserializer # None /\ ~HasField(call[2].schema, "key") THEN "key"
    ELSE IF call[2].value_deserializer # None /\ ~HasField(call[2].schema, "value")
    THEN "value"
    ELSE "none"

\* a deserializer is wired in exactly when it is given, its field is in the
\* schema, and no deserializer before it failed
WiredAsGiven ==
    /\ Wired("key") <=> (call[2].key_deserializer # None /\ HasField(call[2].schema, "key"))
    /\ Wired("value") <=> /\ call[2].value_deserializer # None
                          /\ HasField(call[2].schema, "value")
                          /\ FirstMissing # "key"
    /\ \A f \in {"key", "value"} :
         Succeeded =>
            \E i \in 1..Len(result[2].cols) :
               /\ result[2].cols[i].name = f
               /\ result[2].cols[i].expr =
                    IF Wired(f)
                    THEN <<"udf",
                           IF f = "key" THEN call[2].key_deserializer
                           ELSE call[2].value_deserializer,
                           FirstType(call[2].schema, f), f>>
                    ELSE <<"raw">>

\* C4 as stated: a deserializer whose field is missing, the schema being absent
\* or without that field, fails with InvalidArgumentError naming the field; the
\* key is validated before the value; a deserializer is wired in only with its
\* field in the schema.
C4_ErrorNamesField ==
    PastLoad =>
        /\ FirstMissing # "none" =>
              FailedWith("InvalidArgumentError") /\ NamesField(FirstMissing)
        /\ WiredAsGiven

\* C4, amended: a deserializer whose field is missing fails with
\* InvalidArgumentError; the error names the field and the schema when a schema
\* is given without that field, and names no field when no schema is given; the
\* key is validated before the value; a deserializer is wired in only with its
\* field in the schema.
C4_DeserializerNeedsField ==
    PastLoad =>
        /\ FirstMissing # "none" =>
              /\ FailedWith("InvalidArgumentError")
              /\ IF call[2].schema = None
                 THEN /\ result[2].text = "Cannot use a deserializer without specifying schema"
                      /\ result[2].args = <<>>
                 ELSE /\ NamesField(FirstMissing)
                      /\ result[2].args[2] = call[2].schema
        /\ FirstMissing = "none" => ~FailedWith("InvalidArgumentError")
        /\ WiredAsGiven

\* C4 witness: both deserializers and a schema with a key field only: the key is
\* wired in, then the value is refused by name
C4_Witness ==
    /\ PastLoad
    /\ call[2].key_deserializer # None
    /\ call[2].value_deserializer # None
    /\ call[2].schema = <<"schema", <<Field("key", "string")>>>>
    /\ Wired("key")
    /\ FailedWith("InvalidArgumentError")
    /\ NamesField("value")

ColumnNames(df) == [i \in 1..Len(df.cols) |-> df.cols[i].name]

\* C5: a successful kafka call with a falsy include_meta_cols returns exactly the
\* columns key and value; with a truthy one it returns key, value and every
\* metadata column of the engine.
C5_Columns ==
    (IsKafka /\ Succeeded) =>
        ColumnNames(result[2]) =
            IF call[2].include_meta_cols \in {None, BoolV(FALSE)}
            THEN <<"key", "value">>
            ELSE <<"key", "value">> \o call[3]

\* C5 witness: the default flag, an engine with metadata columns, a deserializer
C5_Witness ==
    /\ IsKafka /\ Succeeded
    /\ call[2].include_meta_cols = None
    /\ call[3] # <<>>
    /\ Wired("key")
    /\ ColumnNames(result[2]) = <<"key", "value">>

UniquePartitions(ranges) ==
    \A i, j \in 1..Len(ranges) : i # j => ranges[i][1] # ranges[j][1]

\* the value of the first reader.option(name, ...) call
FirstOption(name) ==
    trace[CHOOSE i \in EventsOf("option") :
              /\ trace[i].api = name
              /\ \A j \in EventsOf("option") : trace[j].api = name => i <= j].arg

\* the JSON object obj maps topic t to one entry per partition of ranges, keyed
\* by the partition id and holding field `which` of that partition's range
MapsPartitions(obj, t, ranges, which) ==
    /\ obj[1] = "json"
    /\ DOMAIN obj[2] = {t}
    /\ DOMAIN obj[2][t] = {IntToStr(ranges[i][1]) : i \in 1..Len(ranges)}
    /\ \A i \in 1..Len(ranges) : obj[2][t][IntToStr(ranges[i][1])] = ranges[i][which]

\* C6: kafka with one topic t and a non-empty offset_ranges of unique partitions
\* sets startingOffsets to {t: {partition: start}} and endingOffsets to
\* {t: {partition: end}}, with the partitions of offset_ranges and no other.
C6_OffsetMaps ==
    (/\ IsKafka
     /\ call[2].topic # None
     /\ Len(TopicList(call[2].topic)) = 1
     /\ call[2].offset_ranges # None
     /\ call[2].offset_ranges[2] # <<>>
     /\ UniquePartitions(call[2].offset_ranges[2])) =>
        /\ MapsPartitions(FirstOption("startingOffsets"), TopicList(call[2].topic)[1],
                          call[2].offset_ranges[2], 2)
        /\ MapsPartitions(FirstOption("endingOffsets"), TopicList(call[2].topic)[1],
                          call[2].offset_ranges[2], 3)
        /\ \A i \in EventsOf("load") :
              \A k \in {"startingOffsets", "endingOffsets"} :
                 /\ k \in DOMAIN trace[i].arg
                 /\ (call[2].options = None \/ k \notin DOMAIN call[2].options[2]) =>
                        trace[i].arg[k] = FirstOption(k)

\* C6 witness: offset_ranges [(0, 10, 20), (1, 0, 5)] on topic t1
C6_Witness ==
    /\ IsKafka /\ Succeeded
    /\ call[2].topic = StrV(<<"t1">>)
    /\ call[2].offset_ranges = ListV(<<<<0, 10, 20>>, <<1, 0, 5>>>>)
    /\ FirstOption("startingOffsets") =
          <<"json", (<<"t1">> :> ((<<"0">> :> 10) @@ (<<"1">> :> 0)))>>
    /\ FirstOption("endingOffsets") =
          <<"json", (<<"t1">> :> ((<<"0">> :> 20) @@ (<<"1">> :> 5)))>>

\* the value the URL's query string gives key k (its last occurrence)
LastValue(url, k) ==
    url.query[CHOOSE i \in 1..Len(url.query) :
                  /\ url.query[i][1] = k
                  /\ \A j \in (i + 1)..Len(url.query) : url.query[j][1] # k][2]

\* the parallelism the caller supplied: <<"None">> or <<"int", n>>
SuppliedParallelism ==
    IF call[1] = "kafka" THEN call[2].parallelism
    ELSE IF "parallelism" \in QueryKeys(call[2])
    THEN IntV(PyInt(LastValue(call[2], "parallelism")))
    ELSE None

\* C7 as stated: a successful by_url or kafka call makes exactly one load call,
\* and exactly one coalesce call, after the load and to the value supplied, if a
\* parallelism was supplied, and none if none was supplied.
C7_OneLoadOneCoalesce ==
    Succeeded =>
        /\ Cardinality(EventsOf("load")) = 1
        /\ IF SuppliedParallelism = None
           THEN EventsOf("coalesce") = {} /\ result[2].coalesced = <<>>
           ELSE /\ Cardinality(EventsOf("coalesce")) = 1
                /\ \A i \in EventsOf("coalesce") :
                     /\ trace[i].arg = SuppliedParallelism
                     /\ \A j \in EventsOf("load") : j < i
                /\ result[2].coalesced = <<SuppliedParallelism[2]>>

\* the configuration of the call's load
LoadConfig == trace[CHOOSE i \in EventsOf("load") : TRUE].arg

LoadApi == trace[CHOOSE i \in EventsOf("load") : TRUE].api

\* the keys a resolver takes out of the query string
ReservedKeys(scheme) ==
    {"parallelism"} \cup (IF scheme = "cassandra" THEN {"consistency"}
                          ELSE IF scheme = "elastic" THEN {"q", "fields"}
                          ELSE {})

Discriminator(scheme) ==
    CASE scheme = "cassandra" -> "org.apache.spark.sql.cassandra"
      [] scheme = "elastic" -> "org.elasticsearch.spark.sql"
      [] scheme = "mysql" -> "jdbc"
      [] OTHER -> scheme

\* the structural keys of a backend with the values the URL's authority and
\* path give them
Structural(url) ==
    LET segs == Split(url.path, "/")
        authority == url.host \o (IF url.port = None THEN <<>>
                                  ELSE <<":">> \o IntToStr(url.port[2]))
    IN CASE url.scheme = "cassandra" ->
              ("format" :> StrV(<<Discriminator(url.scheme)>>))
              @@ ("spark.cassandra.connection.host" :> StrV(url.host))
              @@ ("keyspace" :> StrV(segs[2])) @@ ("table" :> StrV(segs[3]))
         [] url.scheme = "elastic" ->
              ("format" :> StrV(<<Discriminator(url.scheme)>>))
              @@ ("es.nodes" :> StrV(authority))
              @@ ("path" :> StrV(IF Len(segs) > 2 /\ segs[3] # <<>>
                                 THEN segs[2] \o <<"/">> \o segs[3] ELSE segs[2]))
         [] url.scheme = "mysql" ->
              ("format" :> StrV(<<Discriminator(url.scheme)>>))
              @@ ("url" :> StrV(<<"jdbc:mysql://">> \o authority \o <<"/">> \o segs[2]))
              @@ ("dbtable" :> StrV(segs[3]))

\* C8 as stated: in the configuration the cassandra, elastic and mysql resolvers
\* hand to the engine, a query parameter overrides a resolver default of the
\* same name, and the structural keys (format, host, keyspace, table, path,
\* connection url) keep the value derived from the URL's authority and path
\* whatever the query parameters are.
C8_StructuralKeysKept ==
    (IsByUrl /\ call[2].scheme \in {"cassandra", "elastic", "mysql"} /\ Loaded) =>
        /\ \A k \in DOMAIN Structural(call[2]) : LoadConfig[k] = Structural(call[2])[k]
        /\ \A k \in DOMAIN dict(parse_qsl(call[2].query)) :
              k \notin ReservedKeys(call[2].scheme) \cup DOMAIN Structural(call[2]) =>
                 LoadConfig[k] = StrV(LastValue(call[2], k))

\* C9 as stated: for every supported scheme, the configuration the engine is
\* invoked with has a format key holding that backend's discriminator.
C9_FormatKey ==
    (IsByUrl /\ call[2].scheme \in ResolverSchemes /\ Loaded) =>
        /\ LoadApi # "table"
        /\ "format" \in DOMAIN LoadConfig
        /\ LoadConfig["format"] = StrV(<<Discriminator(call[2].scheme)>>)

\* C10 as stated: on cassandra, elastic, mysql, csv and parquet the reserved
\* query keys do not reach the engine under their own name, a schema key of a
\* file format (csv, parquet) reaches it as the parsed schema, and every other
\* query key that is given a value reaches it with its name and that string.
C10_QueryKeys ==
    (IsByUrl /\ call[2].scheme \in ResolverSchemes \ {"table"} /\ Loaded) =>
        /\ ReservedKeys(call[2].scheme) \cap DOMAIN LoadConfig = {}
        /\ \A k \in DOMAIN dict(parse_qsl(call[2].query)) \ ReservedKeys(call[2].scheme) :
              /\ k \in DOMAIN LoadConfig
              /\ LoadConfig[k] =
                    IF k = "schema" /\ call[2].scheme \in {"csv", "parquet"}
                    THEN parse_schema(StrV(LastValue(call[2], k)))
                    ELSE StrV(LastValue(call[2], k))

\* the error types of the taxonomy; the unsupported-scheme error is raised as
\* NotImplementedError
TypedErrors ==
    {"NotImplementedError", "InvalidArgumentError", "MalformedLocationError", "EngineError"}

\* the number of path segments a backend needs after the leading empty one
RequiredSegments(scheme) ==
    IF scheme \in {"cassandra", "mysql"} THEN 2 ELSE IF scheme = "elastic" THEN 1 ELSE 0

\* the URL's path lacks a segment its backend requires
LacksSegment(url) == Len(Split(url.path, "/")) - 1 < RequiredSegments(url.scheme)

\* the URL's query gives parallelism a value
GivesParallelism(url) ==
    "parallelism" \in QueryKeys(url) /\ LastValue(url, "parallelism") # <<>>

\* the parallelism of the URL's query is a positive integer
PositiveParallelism(url) ==
    /\ IsNumeric(LastValue(url, "parallelism"))
    /\ PyInt(LastValue(url, "parallelism")) > 0

\* C11 as stated: every error by_url raises by itself is of the typed taxonomy;
\* on a supported scheme a non-numeric parallelism fails with
\* InvalidArgumentError, a parallelism that is accepted (the engine is reached)
\* is a positive integer, and a cassandra, mysql or elastic URL whose path lacks
\* a required segment fails with MalformedLocationError.
C11_TypedErrorsOnly ==
    IsByUrl =>
        /\ Failed => result[2].type \in TypedErrors
        /\ call[2].scheme \in ResolverSchemes =>
              /\ (GivesParallelism(call[2])
                  /\ ~IsNumeric(LastValue(call[2], "parallelism"))) =>
                     FailedWith("InvalidArgumentError")
              /\ (GivesParallelism(call[2]) /\ Loaded) => PositiveParallelism(call[2])
              /\ (LacksSegment(call[2])
                  /\ (GivesParallelism(call[2]) => PositiveParallelism(call[2]))) =>
                     FailedWith("MalformedLocationError")

====
